---- MODULE Spec2Model ----
(***************************************************************************)
(* Model of the Chrome history pipeline: chrome_history_analyzer.py (the   *)
(* extractor/analyzer tool), llm_integration.py (the submission step) and  *)
(* daily_summary.py (the daily orchestrator).  Every tool run is strictly  *)
(* sequential, so one run is one action; the state that survives a run is  *)
(* the filesystem, and `last` records what the finished run did.           *)
(***************************************************************************)
EXTENDS Integers, Sequences, FiniteSets, TLC

VARIABLES platform, fs, last, df, analysis

vars == <<platform, fs, last, df, analysis>>

(* ------------------------------ bounds --------------------------------- *)

MaxRows == 3      \* longest Visit Record frame handed to the analyzer
MaxDate == 1      \* calendar dates 0..MaxDate (days since Monday 2024-01-01)

(* ---------------------------- filesystem ------------------------------- *)

TempCopy       == "~/history_temp.db"
OutputDir      == "output"
DailyDir       == "output/daily"
PromptFile     == "output/llm_prompt.txt"
CustomPrompt   == "my_prompt.txt"
RawCsv         == "output/chrome_history_raw.csv"
HourlyCsv      == "output/chrome_history_hourly.csv"
DomainsCsv     == "output/chrome_history_domains.csv"
RawJson        == "output/chrome_history_raw.json"
AnalysisJson   == "output/chrome_history_analysis.json"
ReportFile     == "output/chrome_history_report.md"
InsightsFile   == "output/llm_insights.md"
DatedReport    == "output/daily/today_chrome_history.md"
DatedInsights  == "output/daily/today_insights.md"

OutputFiles == {PromptFile, RawCsv, HourlyCsv, DomainsCsv, RawJson,
                AnalysisJson, ReportFile, InsightsFile}
DailyFiles  == {DatedReport, DatedInsights}
Paths       == {TempCopy, CustomPrompt} \cup OutputFiles \cup DailyFiles

\* The directory a path lives in; "." is the working directory and "~" the
\* home directory, both of which always exist.
ParentOf(p) == IF p \in OutputFiles THEN OutputDir
               ELSE IF p \in DailyFiles THEN DailyDir
               ELSE IF p = TempCopy THEN "~" ELSE "."

Absent == [exists |-> FALSE, data |-> <<>>]
File(d) == [exists |-> TRUE, data |-> d]

DirExists(f, d) == d \in {".", "~"} \/ d \in f.dirs
Exists(f, p)    == f.files[p].exists

\* open(p, 'w') followed by the writes: FileNotFoundError when the parent
\* directory is missing, otherwise the file holds exactly what was written.
OpenWrite(f, p, d) ==
    IF DirExists(f, ParentOf(p))
    THEN [raised |-> "none", fs |-> [f EXCEPT !.files[p] = File(d)]]
    ELSE [raised |-> "FileNotFoundError", fs |-> f]

\* Path.mkdir(exist_ok=True): creates the directory; its parent must exist.
Mkdir(f, d) ==
    IF d = DailyDir /\ OutputDir \notin f.dirs
    THEN [raised |-> "FileNotFoundError", fs |-> f]
    ELSE [raised |-> "none", fs |-> [f EXCEPT !.dirs = @ \cup {d}]]

\* Path.mkdir(exist_ok=True, parents=True)
MkdirParents(f, d) ==
    [raised |-> "none",
     fs |-> [f EXCEPT !.dirs = @ \cup (IF d = DailyDir THEN {OutputDir, DailyDir} ELSE {d})]]

\* The part of the filesystem under output/.
OutputTree(f) == [dirs |-> f.dirs, files |-> [p \in OutputFiles \cup DailyFiles |-> f.files[p]]]

(* ------------------------- Visit Records -------------------------------- *)

Hours   == {9, 23}
Domains == {"a.com", "b.com"}

\* A row as the query returns it: visit_time is the calendar-local time, in
\* minutes since Monday 2024-01-01 00:00; the url is <<scheme, netloc, path>>.
QueryRow(d, h, n) ==
    [visit_time |-> d * 1440 + h * 60, url |-> <<"https", n, "/">>,
     title |-> "T", duration_seconds |-> 0]

QueryRows == {QueryRow(d, h, n) : d \in 0..MaxDate, h \in Hours, n \in Domains}

\* ORDER BY visits.visit_time DESC
OrderedDesc(s) == \A i \in 1..(Len(s) - 1) : s[i].visit_time >= s[i + 1].visit_time

QueryResults(n) == {s \in UNION {[1..k -> QueryRows] : k \in 0..n} : OrderedDesc(s)}

DayNames == <<"Monday", "Tuesday", "Wednesday", "Thursday", "Friday", "Saturday", "Sunday">>

HourOf(t)    == (t \div 60) % 24
DateOf(t)    == t \div 1440
DayNameOf(t) == DayNames[(DateOf(t) % 7) + 1]
Netloc(url)  == url[2]

\* The derived columns hour, date, day_of_week and domain.
AddColumns(rows) ==
    [i \in 1..Len(rows) |->
        [visit_time |-> rows[i].visit_time, url |-> rows[i].url,
         title |-> rows[i].title, duration_seconds |-> rows[i].duration_seconds,
         hour |-> HourOf(rows[i].visit_time), date |-> DateOf(rows[i].visit_time),
         day_of_week |-> DayNameOf(rows[i].visit_time), domain |-> Netloc(rows[i].url)]]

Frames(n) == {AddColumns(r) : r \in QueryResults(n)}

(* ------------------------- History Extractor ---------------------------- *)

Platforms == {"Windows", "Darwin", "Linux", "FreeBSD"}

\* get_chrome_history_path: the three supported systems have a path, any
\* other system raises OSError.
get_chrome_history_path(sys) ==
    IF sys \in {"Windows", "Darwin", "Linux"}
    THEN [raised |-> "none"] ELSE [raised |-> "OSError"]

\* The query results a tool run may see: none (a lookback of 0 days), one
\* row, or two visits to one domain followed by a late visit to another.
SampleResults ==
    {<<>>, <<QueryRow(0, 9, "a.com")>>,
     <<QueryRow(0, 23, "b.com"), QueryRow(0, 9, "a.com"), QueryRow(0, 9, "a.com")>>}

\* What the environment decides for one extraction: whether the history
\* store exists, how far shutil.copy2 gets, whether sqlite3.connect and the
\* query succeed, and the rows the query returns.
ExtractEnvs ==
    {[source |-> FALSE, copy |-> "ok", connect |-> TRUE, query |-> TRUE, rows |-> <<>>]}
    \cup {[source |-> TRUE, copy |-> c, connect |-> TRUE, query |-> TRUE, rows |-> <<>>] :
            c \in {"fail_early", "fail_partial"}}
    \cup {[source |-> TRUE, copy |-> "ok", connect |-> FALSE, query |-> TRUE, rows |-> <<>>],
          [source |-> TRUE, copy |-> "ok", connect |-> TRUE, query |-> FALSE, rows |-> <<>>]}
    \cup {[source |-> TRUE, copy |-> "ok", connect |-> TRUE, query |-> TRUE, rows |-> r] :
            r \in SampleResults}

SysExitZero == [raised |-> "SystemExit", code |-> 0]

\* sys.exit(1)
SysExitOne == [raised |-> "SystemExit", code |-> 1]

\* os.remove(temp_copy).  On Windows a file that an open sqlite3 connection
\* of this process still holds cannot be deleted: PermissionError.
os_remove(sys, f, connOpen) ==
    IF sys = "Windows" /\ connOpen
    THEN [raised |-> "PermissionError", fs |-> f]
    ELSE [raised |-> "none", fs |-> [f EXCEPT !.files[TempCopy] = Absent]]

\* The finally block: remove the temporary copy if it exists.
Finally(sys, f, connOpen) ==
    IF Exists(f, TempCopy) THEN os_remove(sys, f, connOpen)
    ELSE [raised |-> "none", fs |-> f]

\* How extract_chrome_history ends once the finally block has run with
\* result `fin`.  `how` is the way the try block ended; an exception raised
\* by the finally block replaces the pending return or SystemExit.
ExtractResult(how, fin, rows) ==
    IF fin.raised # "none"
    THEN [status |-> how, raised |-> fin.raised, code |-> 1, fs |-> fin.fs, df |-> <<>>]
    ELSE IF how = "returned"
    THEN [status |-> how, raised |-> "none", code |-> 0, fs |-> fin.fs, df |-> AddColumns(rows)]
    ELSE [status |-> how, raised |-> SysExitOne.raised, code |-> SysExitOne.code,
          fs |-> fin.fs, df |-> <<>>]

\* The try/except/finally of extract_chrome_history from the copy on.
ExtractEnd(sys, f, how, connOpen, rows) == ExtractResult(how, Finally(sys, f, connOpen), rows)

\* shutil.copy2(history_db, temp_copy) when it completes.
Copied(f) == [f EXCEPT !.files[TempCopy] = File(<<"history copy">>)]

extract_chrome_history(sys, f, env) ==
    IF get_chrome_history_path(sys).raised # "none"
    THEN [status |-> "unsupported_os", raised |-> "OSError", code |-> 1, fs |-> f, df |-> <<>>]
    ELSE IF ~env.source
    THEN [status |-> "missing_source", raised |-> SysExitOne.raised,
          code |-> SysExitOne.code, fs |-> f, df |-> <<>>]
    ELSE IF env.copy = "fail_early"
    THEN ExtractEnd(sys, f, "copy_failed", FALSE, <<>>)
    ELSE IF env.copy = "fail_partial"
    THEN ExtractEnd(sys, [f EXCEPT !.files[TempCopy] = File(<<"partial copy">>)],
                    "copy_failed", FALSE, <<>>)
    ELSE IF ~env.connect THEN ExtractEnd(sys, Copied(f), "connect_failed", FALSE, <<>>)
    ELSE IF ~env.query THEN ExtractEnd(sys, Copied(f), "query_failed", TRUE, <<>>)
    ELSE ExtractEnd(sys, Copied(f), "returned", FALSE, env.rows)

(* -------------------------- Pattern Analyzer ---------------------------- *)

TopN == 20

\* Sort orders of the group keys: integers by value, strings lexically.
HourRank   == [h \in 0..23 |-> h]
DateRank   == [d \in 0..MaxDate |-> d]
DayRank    == [n \in {DayNames[i] : i \in 1..7} |->
                 CHOOSE k \in 1..7 :
                   <<"Friday", "Monday", "Saturday", "Sunday", "Thursday", "Tuesday", "Wednesday">>[k] = n]
DomainRank == [n \in Domains |-> IF n = "a.com" THEN 1 ELSE 2]

RECURSIVE Ascending(_, _)
Ascending(S, rank) ==
    IF S = {} THEN <<>>
    ELSE LET m == CHOOSE x \in S : \A y \in S : rank[x] <= rank[y]
         IN <<m>> \o Ascending(S \ {m}, rank)

\* df.groupby(col).size().reset_index(name='count'): one row per key present,
\* keys ascending.
GroupBySize(frame, col, rank) ==
    LET keys == Ascending({frame[i][col] : i \in 1..Len(frame)}, rank)
    IN [k \in 1..Len(keys) |->
          [key |-> keys[k],
           count |-> Cardinality({i \in 1..Len(frame) : frame[i][col] = keys[k]})]]

RECURSIVE StableSort(_, _)
\* Rows ordered by count (descending when desc), equal counts in input order.
StableSort(rows, desc) ==
    IF rows = <<>> THEN <<>>
    ELSE LET better(a, b) == IF desc THEN a > b ELSE a < b
             i == CHOOSE j \in 1..Len(rows) :
                    /\ \A k \in 1..Len(rows) : ~better(rows[k].count, rows[j].count)
                    /\ \A k \in 1..(j - 1) : rows[k].count # rows[j].count
         IN <<rows[i]>> \o
            StableSort([k \in 1..(Len(rows) - 1) |-> IF k < i THEN rows[k] ELSE rows[k + 1]], desc)

\* The keyword parameters DataFrame.sort_values accepts.
SortValuesKeywords ==
    {"axis", "ascending", "inplace", "kind", "na_position", "ignore_index", "key"}

\* DataFrame.sort_values(by, **kwargs) with by = 'count': a keyword that is
\* not a parameter raises TypeError; otherwise ascending unless ascending=False.
sort_values(rows, kwargs) ==
    IF ~(DOMAIN kwargs \subseteq SortValuesKeywords)
    THEN [raised |-> "TypeError", rows |-> <<>>]
    ELSE [raised |-> "none",
          rows |-> StableSort(rows, "ascending" \in DOMAIN kwargs /\ ~kwargs["ascending"])]

\* .head(n)
FirstRows(rows, n) == SubSeq(rows, 1, IF Len(rows) < n THEN Len(rows) ELSE n)

RECURSIVE SumOf(_)
SumOf(s) == IF s = <<>> THEN 0 ELSE Head(s) + SumOf(Tail(s))

\* Series.mean(): the exact quotient num/den; NaN (den = 0) on no values.
Mean(s) == [num |-> SumOf(s), den |-> Len(s)]

SetMin(S) == CHOOSE x \in S : \A y \in S : x <= y
SetMax(S) == CHOOSE x \in S : \A y \in S : x >= y

\* df.groupby('date').agg(first_browse=min, last_browse=max) with the
\* first_hour and last_hour columns added.
DailyFirstLast(frame) ==
    LET dates == Ascending({frame[i].date : i \in 1..Len(frame)}, DateRank)
        times(d) == {frame[i].visit_time : i \in {j \in 1..Len(frame) : frame[j].date = d}}
    IN [k \in 1..Len(dates) |->
          [date |-> dates[k],
           first_browse |-> SetMin(times(dates[k])), last_browse |-> SetMax(times(dates[k])),
           first_hour |-> HourOf(SetMin(times(dates[k]))),
           last_hour  |-> HourOf(SetMax(times(dates[k])))]]

NotRun == [raised |-> "not_run"]

DomainSortKeywords == [descending |-> TRUE]

\* The Aggregate Result, given the sorted domain counts and the per-date
\* first and last hours.
AggregateResult(frame, domain_counts, daily_first_last) ==
    IF domain_counts.raised # "none" THEN [raised |-> domain_counts.raised]
    ELSE [raised |-> "none",
          hourly_activity |-> GroupBySize(frame, "hour", HourRank),
          daily_activity  |-> GroupBySize(frame, "day_of_week", DayRank),
          top_domains     |-> FirstRows(domain_counts.rows, TopN),
          avg_first_hour  |-> Mean([k \in 1..Len(daily_first_last) |-> daily_first_last[k].first_hour]),
          avg_last_hour   |-> Mean([k \in 1..Len(daily_first_last) |-> daily_first_last[k].last_hour])]

analyze_browsing_patterns(frame) ==
    AggregateResult(frame,
                    sort_values(GroupBySize(frame, "domain", DomainRank), DomainSortKeywords),
                    DailyFirstLast(frame))

(* ----------------------- Report/Prompt Formatter ------------------------ *)

Formats == {"csv", "json", "markdown"}

\* A mean with two decimals ("{:.2f}"), "nan" when there is no value.
TwoDecimals(m) ==
    IF m.den = 0 THEN "nan"
    ELSE LET c == (200 * m.num + m.den) \div (2 * m.den)
         IN ToString(c \div 100) \o "." \o ToString((c % 100) \div 10) \o ToString(c % 10)

CountLines(rows) ==
    [i \in 1..Len(rows) |-> ToString(rows[i].key) \o " " \o ToString(rows[i].count)]

RecentLines(frame) ==
    LET recent == FirstRows(frame, 10)
    IN [i \in 1..Len(recent) |->
          ToString(recent[i].visit_time) \o " " \o recent[i].title \o " " \o recent[i].url[2]]

generate_llm_prompt(a, frame) ==
    <<"Analyze this Chrome browsing history data:", "1. Hourly activity pattern:">>
    \o CountLines(a.hourly_activity)
    \o <<"2. Top domains visited:">> \o CountLines(a.top_domains)
    \o <<"3. Average first browsing hour: " \o TwoDecimals(a.avg_first_hour),
         "4. Average last browsing hour: " \o TwoDecimals(a.avg_last_hour),
         "5. Sample of recent URLs and titles:">>
    \o RecentLines(frame)
    \o <<"Based on this data, please provide insights about:">>

MarkdownReport(a, frame) ==
    <<"# Chrome Browsing History Analysis", "## Activity by Hour">>
    \o [i \in 1..Len(a.hourly_activity) |->
          "- " \o ToString(a.hourly_activity[i].key) \o ":00 - "
               \o ToString(a.hourly_activity[i].count) \o " visits"]
    \o <<"## Top Domains">>
    \o [i \in 1..Len(FirstRows(a.top_domains, 10)) |->
          "- " \o a.top_domains[i].key \o ": " \o ToString(a.top_domains[i].count) \o " visits"]
    \o <<"## Estimated Sleep Patterns",
         "- Average first browsing hour: " \o TwoDecimals(a.avg_first_hour),
         "- Average last browsing hour: " \o TwoDecimals(a.avg_last_hour),
         "## Recent Browsing Activity">>
    \o RecentLines(frame)

RawLines(frame) ==
    [i \in 1..Len(frame) |->
       ToString(frame[i].visit_time) \o "," \o frame[i].url[2] \o "," \o frame[i].title]

\* The files one encoding writes, in the order save_output writes them.
Artifacts(a, frame, fmt) ==
    IF fmt = "csv"
    THEN <<[path |-> RawCsv, data |-> <<"visit_time,url,title">> \o RawLines(frame)],
           [path |-> HourlyCsv, data |-> <<"hour,count">> \o CountLines(a.hourly_activity)],
           [path |-> DomainsCsv, data |-> <<"domain,count">> \o CountLines(a.top_domains)]>>
    ELSE IF fmt = "json"
    THEN <<[path |-> RawJson, data |-> RawLines(frame)],
           [path |-> AnalysisJson,
            data |-> CountLines(a.hourly_activity) \o CountLines(a.daily_activity)
                     \o CountLines(a.top_domains)
                     \o <<TwoDecimals(a.avg_first_hour), TwoDecimals(a.avg_last_hour)>>]>>
    ELSE <<[path |-> ReportFile, data |-> MarkdownReport(a, frame)]>>

RECURSIVE WriteAll(_, _)
WriteAll(f, files) ==
    IF files = <<>> THEN [raised |-> "none", fs |-> f]
    ELSE LET w == OpenWrite(f, Head(files).path, Head(files).data)
         IN IF w.raised # "none" THEN w ELSE WriteAll(w.fs, Tail(files))

\* save_output: create output/ if absent, then write the chosen encoding.
save_output(f, frame, a, fmt) == WriteAll(Mkdir(f, OutputDir).fs, Artifacts(a, frame, fmt))

\* An exception that reaches the top of a script ends it with status 1.
ExitStatus(raised, code) ==
    IF raised = "none" THEN 0 ELSE IF raised = "SystemExit" THEN code ELSE 1

RunResult(f, raised, code, e, a) ==
    [fs |-> f, raised |-> raised, exit |-> ExitStatus(raised, code),
     extraction |-> e.status, df |-> e.df, analysis |-> a]

\* main() after the prompt was generated: write it to output/llm_prompt.txt,
\* then save the chosen encoding.
MainWrite(e, a, w, fmt) ==
    IF w.raised # "none" THEN RunResult(w.fs, w.raised, 0, e, a)
    ELSE RunResult(save_output(w.fs, e.df, a, fmt).fs, save_output(w.fs, e.df, a, fmt).raised, 0, e, a)

\* main() after the extraction returned `e` and the analysis `a`.
MainAnalyzed(e, a, fmt) ==
    IF a.raised # "none" THEN RunResult(e.fs, a.raised, 0, e, a)
    ELSE MainWrite(e, a, OpenWrite(e.fs, PromptFile, generate_llm_prompt(a, e.df)), fmt)

\* main() after extract_chrome_history ended as `e`.
MainExtracted(e, fmt) ==
    IF e.raised # "none" THEN RunResult(e.fs, e.raised, e.code, e, NotRun)
    ELSE MainAnalyzed(e, analyze_browsing_patterns(e.df), fmt)

\* main() of chrome_history_analyzer.py, in statement order: extract,
\* analyze, generate the prompt, write it, save the chosen encoding.
analyzer_main(sys, f, fmt, env) == MainExtracted(extract_chrome_history(sys, f, env), fmt)

(* ------------------ External Text-Generation Submission ----------------- *)

Providers == {"openai", "anthropic", "local"}

\* A text is a sequence of lines; <<>> is the empty text.
Texts == {<<>>, <<"You wake at nine.">>, <<"Late nights.", "Mostly a.com.">>}

Heading     == "# Chrome History Analysis Insights"
Placeholder == <<"No response from local LLM">>

NoReply == [kind |-> "none", status |-> 0, field |-> FALSE, text |-> <<>>]

\* What the backend does with one request: the call raises, the service
\* answers with a non-success status, or it answers with a text (for the
\* local service: status 200, with or without a "response" field).
Replies(provider) ==
    {[kind |-> "exception", status |-> 0, field |-> FALSE, text |-> <<>>]}
    \cup {[kind |-> "ok", status |-> 200, field |-> TRUE, text |-> t] : t \in Texts}
    \cup (IF provider = "local"
          THEN {[kind |-> "ok", status |-> 200, field |-> FALSE, text |-> <<>>],
                [kind |-> "status", status |-> 500, field |-> FALSE, text |-> <<>>]}
          ELSE {})

\* What the environment decides for one submission: whether the backend's
\* package is importable, whether its credential is set, and the reply.
LlmEnvs(provider) ==
    {[installed |-> FALSE, key |-> TRUE, reply |-> NoReply]}
    \cup (IF provider = "local" THEN {}
          ELSE {[installed |-> TRUE, key |-> FALSE, reply |-> NoReply]})
    \cup {[installed |-> TRUE, key |-> TRUE, reply |-> r] : r \in Replies(provider)}

\* The value an analyze_with_* function returns: None, or a text; `why` is
\* the diagnostic it printed on the way.
None(why)  == [none |-> TRUE, text |-> <<>>, why |-> why]
Text(t)    == [none |-> FALSE, text |-> t, why |-> "text"]

\* analyze_with_openai and analyze_with_anthropic have the same shape.
analyze_with_hosted(env) ==
    IF ~env.installed THEN None("import_error")
    ELSE IF ~env.key THEN None("no_key")
    ELSE IF env.reply.kind # "ok" THEN None("call_exception")
    ELSE Text(env.reply.text)

analyze_with_local_llm(env) ==
    IF ~env.installed THEN None("import_error")
    ELSE IF env.reply.kind = "exception" THEN None("call_exception")
    ELSE IF env.reply.status = 200
    THEN Text(IF env.reply.field THEN env.reply.text ELSE Placeholder)
    ELSE None("bad_status")

\* f.write(insights) after the heading was written to the opened file.
WriteInsights(opened, insights) ==
    IF insights.none THEN [raised |-> "TypeError", fs |-> opened.fs]
    ELSE OpenWrite(opened.fs, InsightsFile, <<Heading>> \o insights.text)

SaveInsightsNoHeading(f, insights) ==
    OpenWrite(Mkdir(f, OutputDir).fs, InsightsFile, insights.text)

\* save_insights: create output/ if absent, open the file for writing (which
\* truncates it), write the heading, then the insights.
save_insights(f, insights) ==
    WriteInsights(OpenWrite(Mkdir(f, OutputDir).fs, InsightsFile, <<Heading>>), insights)

AlwaysTruthy(v) == TRUE

\* Python truth of `insights`: None and the empty string are false.
Truthy(v) == ~v.none /\ v.text # <<>>

\* How main() ends; `requests` lists, in order, the backend each request
\* of this invocation was sent to.
LlmResult(saved, why, reply, requests) ==
    [fs |-> saved.fs, raised |-> saved.raised, exit |-> ExitStatus(saved.raised, 0),
     why |-> why, reply |-> reply, requests |-> requests]

\* main() once the backend call returned `insights`: save them if truthy.
\* `reply` is what the backend answered, if a request was sent at all.
MainInsights(f, insights, reply) ==
    IF Truthy(insights)
    THEN LlmResult(save_insights(f, insights), insights.why, reply, insights.requests)
    ELSE LlmResult([raised |-> "none", fs |-> f], insights.why, reply, insights.requests)

Sent(insights, env) ==
    IF insights.why \in {"call_exception", "bad_status", "text"} THEN env.reply ELSE NoReply

\* The result `r` of an analyze_with_* function together with the requests
\* it sent: each function makes its one backend call (create / post) only
\* after the import and the credential check passed, and the call either
\* raises, answers with a bad status or yields a text.
Called(backend, r) ==
    [none |-> r.none, text |-> r.text, why |-> r.why,
     requests |-> IF r.why \in {"call_exception", "bad_status", "text"}
                  THEN <<backend>> ELSE <<>>]

analyze_with_openai(env)    == Called("openai", analyze_with_hosted(env))
analyze_with_anthropic(env) == Called("anthropic", analyze_with_hosted(env))
analyze_with_local(env)     == Called("local", analyze_with_local_llm(env))

\* A dispatch that falls back to the local service when the chosen hosted
\* backend yields nothing.
FallBackToLocal(first, env) ==
    IF ~first.none THEN first
    ELSE [none |-> analyze_with_local(env).none, text |-> analyze_with_local(env).text,
          why |-> analyze_with_local(env).why,
          requests |-> first.requests \o analyze_with_local(env).requests]

AnalyzeWithFallback(provider, env) ==
    IF provider = "openai" THEN FallBackToLocal(analyze_with_openai(env), env)
    ELSE IF provider = "anthropic" THEN FallBackToLocal(analyze_with_anthropic(env), env)
    ELSE analyze_with_local(env)

\* The dispatch on --provider: if / elif / elif, one branch taken.
AnalyzeWith(provider, env) ==
    IF provider = "openai" THEN analyze_with_openai(env)
    ELSE IF provider = "anthropic" THEN analyze_with_anthropic(env)
    ELSE analyze_with_local(env)

\* main() of llm_integration.py.
llm_main(f, provider, promptPath, env) ==
    IF ~Exists(f, promptPath)
    THEN LlmResult([raised |-> "none", fs |-> f], "prompt_missing", NoReply, <<>>)
    ELSE MainInsights(f, AnalyzeWith(provider, env), Sent(AnalyzeWith(provider, env), env))

(* --------------------------- Daily Orchestrator ------------------------- *)

NeverCalledProcessError(rc) == FALSE

\* subprocess.run(cmd, check=True) raises CalledProcessError on a non-zero
\* exit status of the child.
CalledProcessError(rc) == rc # 0

DailyResult(child, f, outcome, sub) ==
    [child |-> child, fs |-> f, outcome |-> outcome, submission |-> sub.why # "none",
     why |-> sub.why, reply |-> sub.reply, llmExit |-> sub.exit, requests |-> sub.requests]

NoSubmission == [why |-> "none", reply |-> NoReply, exit |-> -1, requests |-> <<>>]

\* generate_daily_summary after llm_integration.py ran as `sub`: copy the
\* insights file, if there is one, to the dated archive.
DailyArchive(child, sub) ==
    IF CalledProcessError(sub.exit) THEN DailyResult(child, sub.fs, "CalledProcessError", sub)
    ELSE IF Exists(sub.fs, InsightsFile)
    THEN DailyResult(child, OpenWrite(sub.fs, DatedInsights, sub.fs.files[InsightsFile].data).fs,
                     "returned", sub)
    ELSE DailyResult(child, sub.fs, "returned", sub)

\* generate_daily_summary after the dated copy of the report was written.
DailyAnalyze(child, dated, analyze, lenv) ==
    IF ~analyze THEN DailyResult(child, dated.fs, "returned", NoSubmission)
    ELSE DailyArchive(child, llm_main(dated.fs, "openai", PromptFile, lenv))

\* generate_daily_summary after chrome_history_analyzer.py ran as `child`.
DailyReport(child, analyze, lenv) ==
    IF CalledProcessError(child.exit)
    THEN DailyResult(child, child.fs, "CalledProcessError", NoSubmission)
    ELSE IF ~Exists(child.fs, ReportFile)
    THEN DailyResult(child, child.fs, "returned", NoSubmission)
    ELSE DailyAnalyze(child,
                      OpenWrite(MkdirParents(child.fs, DailyDir).fs, DatedReport,
                                child.fs.files[ReportFile].data),
                      analyze, lenv)

\* generate_daily_summary: run chrome_history_analyzer.py in markdown mode,
\* archive the report and, with --analyze, run llm_integration.py with its
\* defaults and archive the insights.
generate_daily_summary(sys, f, analyze, aenv, lenv) ==
    DailyReport(analyzer_main(sys, f, "markdown", aenv), analyze, lenv)

(* ------------------------------ the runs -------------------------------- *)

\* The record of the run that ended last.
NoRun ==
    [tool |-> "none", fmt |-> "none", extraction |-> "none", analyzerExit |-> -1,
     analyzerRaised |-> "none", provider |-> "none", promptPath |-> "none",
     why |-> "none", reply |-> NoReply, llmExit |-> -1, analyze |-> FALSE,
     outcome |-> "none", submission |-> FALSE, exit |-> -1, requests |-> <<>>]

NoFiles == [dirs |-> {}, files |-> [p \in Paths |-> Absent]]

\* The working directory before the first run: output/ may or may not
\* exist and may hold a prompt and a report the user put there; a prompt
\* file may exist outside output/.
InitialFs ==
    {[dirs |-> IF o THEN {OutputDir} ELSE {},
      files |-> [p \in Paths |->
                   IF p = PromptFile /\ o /\ pr THEN File(<<"a prompt">>)
                   ELSE IF p = ReportFile /\ o /\ rp THEN File(<<"an old report">>)
                   ELSE IF p = CustomPrompt /\ cp THEN File(<<"my prompt">>)
                   ELSE Absent]] :
        o \in BOOLEAN, pr \in BOOLEAN, rp \in BOOLEAN, cp \in BOOLEAN}

Init ==
    /\ platform \in Platforms
    /\ fs \in InitialFs
    /\ last = NoRun
    /\ df = <<>>
    /\ analysis = NotRun

\* python chrome_history_analyzer.py --output fmt
RunAnalyzer ==
    \E fmt \in Formats, env \in ExtractEnvs :
      \E r \in {analyzer_main(platform, fs, fmt, env)} :
        /\ fs' = r.fs
        /\ df' = r.df
        /\ analysis' = r.analysis
        /\ last' = [NoRun EXCEPT !.tool = "analyzer", !.fmt = fmt,
                       !.extraction = r.extraction, !.analyzerExit = r.exit,
                       !.analyzerRaised = r.raised, !.exit = r.exit]
        /\ UNCHANGED platform

\* python llm_integration.py --provider provider --prompt_file promptPath
RunLlm ==
    \E provider \in Providers, promptPath \in {PromptFile, CustomPrompt} :
      \E env \in LlmEnvs(provider) :
        \E r \in {llm_main(fs, provider, promptPath, env)} :
          /\ fs' = r.fs
          /\ df' = <<>>
          /\ analysis' = NotRun
          /\ last' = [NoRun EXCEPT !.tool = "llm", !.provider = provider,
                         !.promptPath = promptPath, !.why = r.why, !.reply = r.reply,
                         !.llmExit = r.exit, !.exit = r.exit,
                         !.requests = r.requests]
          /\ UNCHANGED platform

\* python daily_summary.py [--analyze]
RunDaily ==
    \E analyze \in BOOLEAN, aenv \in ExtractEnvs, lenv \in LlmEnvs("openai") :
      \E r \in {generate_daily_summary(platform, fs, analyze, aenv, lenv)} :
        /\ fs' = r.fs
        /\ df' = r.child.df
        /\ analysis' = r.child.analysis
        /\ last' = [NoRun EXCEPT !.tool = "daily", !.fmt = "markdown",
                       !.extraction = r.child.extraction, !.analyzerExit = r.child.exit,
                       !.analyzerRaised = r.child.raised, !.analyze = analyze,
                       !.provider = IF r.submission THEN "openai" ELSE "none",
                       !.promptPath = IF r.submission THEN PromptFile ELSE "none",
                       !.why = r.why, !.reply = r.reply, !.llmExit = r.llmExit,
                       !.outcome = r.outcome, !.submission = r.submission,
                       !.requests = r.requests,
                       !.exit = ExitStatus(IF r.outcome = "returned" THEN "none" ELSE r.outcome, 0)]
        /\ UNCHANGED platform

Next == RunAnalyzer \/ RunLlm \/ RunDaily

Spec == Init /\ [][Next]_vars

(* The Pattern Analyzer alone, applied to every frame of at most MaxRows rows. *)

InitAnalyze ==
    /\ platform = "Linux"
    /\ fs = NoFiles
    /\ last = NoRun
    /\ df \in Frames(MaxRows)
    /\ analysis = NotRun

Analyze ==
    /\ analysis.raised = "not_run"
    /\ analysis' = analyze_browsing_patterns(df)
    /\ UNCHANGED <<platform, fs, last, df>>

NextAnalyze == Analyze

SpecAnalyze == InitAnalyze /\ [][NextAnalyze]_vars

(* ------------------------------- claims --------------------------------- *)

FatalExtractions == {"missing_source", "copy_failed", "connect_failed", "query_failed"}

\* C1: after an invocation of extract_chrome_history that returned the
\* records, or ended the process because the copy, the connection or the
\* query failed, the temporary copy ~/history_temp.db does not exist.
C1_TempCopyRemoved ==
    last.extraction \in {"returned", "copy_failed", "connect_failed", "query_failed"}
        => ~Exists(fs, TempCopy)

\* C2: a run of the extractor/analyzer tool in which the history store is
\* missing, or the copy, the connection or the query fails, ends with a
\* non-zero exit status and leaves everything under output/ as it found it.
C2_FatalRunLeavesOutputAlone ==
    [][(last'.tool \in {"analyzer", "daily"} /\ last'.extraction \in FatalExtractions)
          => (last'.analyzerExit # 0 /\ OutputTree(fs') = OutputTree(fs))]_vars

C2_Witness ==
    /\ last.tool = "analyzer"
    /\ last.extraction = "query_failed"
    /\ last.exit = 1
    /\ OutputDir \notin fs.dirs

\* C3: a run of the extractor/analyzer tool whose extraction succeeds ends
\* normally with output/ existing, the generated prompt in
\* output/llm_prompt.txt and the artifacts of the chosen encoding written,
\* for each encoding and whether or not output/ existed at the start.
C3_SuccessfulRunWritesOutputs ==
    (last.tool = "analyzer" /\ last.extraction = "returned")
        => /\ last.exit = 0
           /\ OutputDir \in fs.dirs
           /\ analysis.raised = "none"
           /\ fs.files[PromptFile] = File(generate_llm_prompt(analysis, df))
           /\ \A i \in 1..Len(Artifacts(analysis, df, last.fmt)) :
                 fs.files[Artifacts(analysis, df, last.fmt)[i].path]
                     = File(Artifacts(analysis, df, last.fmt)[i].data)

DomainCount(frame, d) == Cardinality({i \in 1..Len(frame) : frame[i].domain = d})

DomainsOf(frame) == {frame[i].domain : i \in 1..Len(frame)}

\* t lists (domain, count) pairs of the frame by count descending, cut to
\* the first TopN.
IsTopDomains(t, frame) ==
    /\ Len(t) = IF Cardinality(DomainsOf(frame)) < TopN
                THEN Cardinality(DomainsOf(frame)) ELSE TopN
    /\ \A i \in 1..Len(t) :
          t[i].key \in DomainsOf(frame) /\ t[i].count = DomainCount(frame, t[i].key)
    /\ \A i \in 1..Len(t), j \in 1..Len(t) :
          (i < j => t[i].count >= t[j].count) /\ (i # j => t[i].key # t[j].key)
    /\ \A d \in DomainsOf(frame) :
          (\A i \in 1..Len(t) : t[i].key # d)
              => \A i \in 1..Len(t) : DomainCount(frame, d) <= t[i].count

\* C4: for every Visit Record set, analyze_browsing_patterns returns
\* top_domains as the (domain, count) pairs ordered by count descending and
\* cut to at most the first 20.
C4_TopDomainsSorted ==
    analysis.raised # "not_run"
        => (analysis.raised = "none" /\ IsTopDomains(analysis.top_domains, df))

CountsOf(rows) == [i \in 1..Len(rows) |-> rows[i].count]

\* C5: for a non-empty Visit Record set the returned Aggregate Result has
\* sum of hourly counts = sum of weekday counts = number of records.
C5_CountsSumToTotal ==
    (analysis.raised # "not_run" /\ Len(df) > 0)
        => /\ analysis.raised = "none"
           /\ SumOf(CountsOf(analysis.hourly_activity)) = Len(df)
           /\ SumOf(CountsOf(analysis.daily_activity)) = Len(df)

DatesOf(frame) == {frame[i].date : i \in 1..Len(frame)}

HoursOn(frame, d) == {frame[i].hour : i \in {j \in 1..Len(frame) : frame[j].date = d}}

RECURSIVE SumOver(_, _, _)
\* The sum over the dates D of the earliest (or latest) hour on each.
SumOver(D, frame, earliest) ==
    IF D = {} THEN 0
    ELSE LET d == CHOOSE x \in D : TRUE
         IN (IF earliest THEN SetMin(HoursOn(frame, d)) ELSE SetMax(HoursOn(frame, d)))
            + SumOver(D \ {d}, frame, earliest)

\* C6: for a Visit Record set with at least one date, avg_first_hour is the
\* mean over the distinct dates present of the hour of the earliest visit on
\* that date, avg_last_hour the same for the latest visit, both in [0,23].
C6_AverageHours ==
    (analysis.raised # "not_run" /\ Len(df) > 0)
        => /\ analysis.raised = "none"
           /\ analysis.avg_first_hour.den = Cardinality(DatesOf(df))
           /\ analysis.avg_first_hour.num = SumOver(DatesOf(df), df, TRUE)
           /\ analysis.avg_last_hour.den = Cardinality(DatesOf(df))
           /\ analysis.avg_last_hour.num = SumOver(DatesOf(df), df, FALSE)
           /\ 0 <= analysis.avg_first_hour.num
           /\ analysis.avg_first_hour.num <= 23 * analysis.avg_first_hour.den
           /\ 0 <= analysis.avg_last_hour.num
           /\ analysis.avg_last_hour.num <= 23 * analysis.avg_last_hour.den

DailyNeverSubmits == last.tool = "daily" => (~last.submission /\ last.analyzerExit # 0)

SubmissionFailures ==
    {"prompt_missing", "import_error", "no_key", "call_exception", "bad_status"}

\* C9: an invocation of the submission step that fails to obtain text
\* (prompt file absent, backend package missing, credential unset,
\* non-success response, exception from the backend call) exits with status
\* 0 and leaves output/llm_insights.md exactly as it was.
C9_FailureLeavesInsightsUntouched ==
    [][last'.why \in SubmissionFailures
          => (last'.llmExit = 0 /\ fs'.files[InsightsFile] = fs.files[InsightsFile])]_vars

C9_Witness ==
    /\ last.tool = "llm"
    /\ last.provider = "openai"
    /\ last.why = "no_key"
    /\ last.exit = 0
    /\ Exists(fs, InsightsFile)

\* C10 as stated: whenever the selected backend call succeeds, the
\* submission step ends with output/llm_insights.md holding the heading
\* followed by exactly the text the backend returned, the empty text and a
\* local response without a response field included.
C10_AnyReturnedTextIsSaved ==
    (last.tool = "llm" /\ last.reply.kind = "ok")
        => fs.files[InsightsFile] = File(<<Heading>> \o last.reply.text)

\* C10 as amended: a non-empty returned text ends up in
\* output/llm_insights.md right after the heading; an empty returned text
\* counts as no insights and the file is left as it was; a successful local
\* response without a response field is saved as the heading followed by
\* the placeholder "No response from local LLM".
C10_NonEmptyTextIsSaved ==
    [][(last'.tool = "llm" /\ last'.reply.kind = "ok")
          => /\ last'.exit = 0
             /\ fs'.files[InsightsFile] =
                  IF ~last'.reply.field THEN File(<<Heading>> \o Placeholder)
                  ELSE IF last'.reply.text # <<>> THEN File(<<Heading>> \o last'.reply.text)
                  ELSE fs.files[InsightsFile]]_vars

C10_Witness ==
    /\ last.tool = "llm"
    /\ last.reply.kind = "ok"
    /\ last.reply.text # <<>>
    /\ fs.files[InsightsFile] = File(<<Heading>> \o last.reply.text)

\* C11: an invocation of the submission step sends at most one request,
\* and only to the backend named by --provider: a failure of that backend
\* is followed neither by a retry nor by a call to another backend.
C11_OneRequestToChosenBackend ==
    /\ Len(last.requests) <= 1
    /\ \A i \in 1..Len(last.requests) : last.requests[i] = last.provider

C11_Witness ==
    /\ last.tool = "llm"
    /\ last.provider = "anthropic"
    /\ last.why = "call_exception"
    /\ last.requests = <<"anthropic">>

====
